---- MODULE Spec2Model ----
(***************************************************************************)
(* Model of the EOCIS data-processor task-execution daemon.                *)
(*                                                                         *)
(*   Spec    the daemon pool: Daemon.run / Daemon.run_task of daemon.py,   *)
(*           N daemon threads polling one shared job store.  The store     *)
(*           and the Task object live in the eocis_data_manager package;   *)
(*           their operations are modelled as individually atomic calls.   *)
(*   SpecPR  one ProcessRunner.run of process_runner.py with its           *)
(*           ProcessMonitor thread and the operating-system subprocess.    *)
(*   SpecTR  one TaskRunner.run of task_runner.py, called by run_task of   *)
(*           a daemon that has claimed a task, up to the end of that       *)
(*           iteration.                                                    *)
(*   SpecCounted  Spec with the launches of every task counted.            *)
(*   SpecDP  the path Daemon -> TaskRunner -> ProcessRunner: SpecTR with   *)
(*           pr.run() played by the ProcessRunner machine of SpecPR.       *)
(***************************************************************************)
EXTENDS Integers, Sequences, FiniteSets, TLC

\* ------------------------------------------------------------------ bounds
\* number of tasks the job manager created and queued
NumTasks == 2

\* launches counted per task
MaxLaunches == 4

\* ------------------------------------------------------- program constants
\* Daemon.start_daemons(store, nr_threads=2)
nr_threads == 2

\* Daemon.__init__(..., max_retries=2)
max_retries == 2

Daemons == 1..nr_threads
Tasks == 1..NumTasks

\* the value of `task` when get_next_task() returned None
NoTask == [id |-> 0, state |-> "none", retry |-> 0]

\* exit codes a task script can end with (0 = success)
ExitCodes == {0, 1}

\* ProcessRunner.__init__(..., timeout=-1, ...): no timeout configured
NoTimeout == -1

\* a configured timeout (seconds); its length is not modelled, the deadline
\* may expire at any moment
SomeTimeout == 1

\* signal.SIGTERM, signal.SIGKILL; a process killed by signal n has returncode -n
SIGTERM == 15

SIGKILL == 9

VARIABLES
    store,      \* persisted task records: task id -> [state, retry]
    queue,      \* the task queue of the job store: set of task ids
    pc,         \* position of each daemon thread in Daemon.run
    task,       \* each daemon's local variable `task` (a Task object)
    ranOk,      \* each daemon's local variable `ran_ok`
    ok,         \* run_task's local variable `ok`, the result of TaskRunner.run
    exc,        \* the exception that ended each daemon thread ("none": it runs)
    log,        \* collaborator calls each daemon made in its current iteration
    error,      \* persisted failure reason of each task ("" while it has none)
    launches,   \* how often the script of each task was launched (where counted)
    \* ---- one ProcessRunner.run, its ProcessMonitor and its subprocess
    timeout,      \* ProcessRunner.timeout
    exitsOnOwn,   \* whether the command ever exits without being signalled
    runPc,        \* position of the calling thread in ProcessRunner.run
    monPc,        \* position of the monitor thread ("none": self.monitor is None)
    sub,          \* self.sub is not None (Popen has returned)
    proc,         \* the subprocess: "none", "alive", "zombie" (exited), "reaped"
    exitStatus,   \* the status the subprocess exited with: <<>> or <<code>>
    return_code,  \* self.return_code: <<>> for None, else <<code>>
    timed_out,    \* self.timed_out
    lockReleased, \* monitor.run_lock has been released by set_done()
    expired,      \* the monitor's run_lock.acquire(timeout) returned False
    caught,       \* the monitor caught an exception of timeout_if_not_complete
    signals,      \* signals sent to the process group, in order
    unread,       \* characters the subprocess wrote to the pipe, not yet read
    emitted,      \* all characters the subprocess has written, in order
    handled,      \* the texts handle_output passed to echo, log file and handler
    exitInTime,   \* the subprocess exited by itself before the deadline expired
    result,       \* what run() returned: <<>> or <<returncode, timed_out>>
    \* ---- one TaskRunner.run
    trPc,         \* position in TaskRunner.run
    trType,       \* task.get_task_type()
    trSpec,       \* task.get_spec(): parameter name -> value
    minicondaExists, \* os.path.exists("/home/dev/miniconda3/bin/conda")
    env,          \* the local variable `env`: variable name -> string
    script,       \* the local variable `script` ("" while unset)
    launched,     \* the commands handed to ProcessRunner, in order
    prOut         \* what pr.run() returned: <<>> or <<retcode, timedout>>

dvars == <<store, queue, pc, task, ranOk, ok, exc, log, error, launches>>

prvars == <<timeout, exitsOnOwn, runPc, monPc, sub, proc, exitStatus, return_code,
            timed_out, lockReleased, expired, caught, signals, unread, emitted,
            handled, exitInTime, result>>

trvars == <<trPc, trType, trSpec, minicondaExists, env, script, launched, prOut>>

vars == <<dvars, prvars, trvars>>

\* ------------------------------------------- Task object (eocis_data_manager)
TaskSetRunning(tk) == [tk EXCEPT !.state = "running"]

TaskSetCompleted(tk) == [tk EXCEPT !.state = "completed"]

TaskSetFailed(tk) == [tk EXCEPT !.state = "failed"]

TaskRetry(tk) == [tk EXCEPT !.state = "queued", !.retry = tk.retry + 1]

\* --------------------------------------- JobOperations (eocis_data_manager)
\* update_task(task): durably writes the task's state and retry counter
UpdateTask(st, tk) == [st EXCEPT ![tk.id] = [state |-> tk.state, retry |-> tk.retry]]

\* queue_task(job_id, task_name): re-admits the task to the queue
QueueTask(q, id) == q \cup {id}

\* the Task object get_next_task() hands out for queue entry id
LoadTask(st, id) == [id |-> id, state |-> st[id].state, retry |-> st[id].retry]

Call(op, tk) == [op |-> op, id |-> tk.id, state |-> tk.state, retry |-> tk.retry]

\* ------------------------------------------------------------- TaskRunner.run
\* values of a task specification: a string, a list of strings or a number
Str(s) == [kind |-> "str", s |-> s, l |-> <<>>, n |-> 0]

List(l) == [kind |-> "list", s |-> "", l |-> l, n |-> 0]

Num(n) == [kind |-> "num", s |-> "", l |-> <<>>, n |-> n]

\* the parameter names and values the task specifications are drawn from
SpecKeys == {"OUT_PATH", "VARIABLES"}

SpecValues == {Str("/data"), List(<<"analysed_sst">>), List(<<"a", "b", "c">>), Num(12)}

TaskSpecs == UNION {[S -> SpecValues] : S \in SUBSET SpecKeys}

\* the task type tags: the two that have a script, and one that has none
TaskTypes == {"regrid", "subset", "other"}

SupportedTypes == {"regrid", "subset"}

\* sep.join(l)
RECURSIVE Join(_, _)
Join(l, sep) ==
    IF l = <<>> THEN ""
    ELSE IF Len(l) = 1 THEN l[1]
    ELSE l[1] \o sep \o Join(Tail(l), sep)

\* the loop body of TaskRunner.run: a list is joined with ",", a number becomes
\* its str(), any other value is taken as it is
Coerce(v) ==
    CASE v.kind = "list" -> Join(v.l, ",")
      [] v.kind = "num" -> ToString(v.n)
      [] OTHER -> v.s

\* env = {"PYTHONPATH": ..., "CONDA_PATH": conda_path, "OUT_PATH": "/tmp"}
BaseEnv(exists) ==
    [k \in {"PYTHONPATH", "CONDA_PATH", "OUT_PATH"} |->
        CASE k = "PYTHONPATH" -> "/home/dev/github/data-processor/src"
          [] k = "CONDA_PATH" -> IF exists THEN "/home/dev/miniconda3/bin/conda"
                                           ELSE "/home/dev/anaconda3/bin/conda"
          [] OTHER -> "/tmp"]

\* BuildEnv with a fault: a base variable is not overwritten by the specification
BuildEnv_BaseWins(base, spec) ==
    [k \in DOMAIN base \cup DOMAIN spec |->
        IF k \in DOMAIN base THEN base[k] ELSE Coerce(spec[k])]

\* for (k, v) in task.get_spec().items(): env[k] = (v coerced)
BuildEnv(base, spec) ==
    [k \in DOMAIN base \cup DOMAIN spec |->
        IF k \in DOMAIN spec THEN Coerce(spec[k]) ELSE base[k]]

\* if task.get_task_type() == "regrid": regrid script, else: subset script
SelectScript(type) ==
    IF type = "regrid" THEN "regrid_task_runner.sh" ELSE "subset_task_runner.sh"

\* what ProcessRunner.run can return: the exit code of the script, or minus the
\* signal that ended it, and the timed_out flag
PROutcomes == (ExitCodes \cup {0 - SIGTERM, 0 - SIGKILL}) \X BOOLEAN

\* TaskRunnerResult with a fault: the timed_out flag is not looked at
TaskRunnerResult_IgnoresTimeout(retcode, timedout) == retcode = 0

\* TaskRunner.run: return retcode == 0 and not timedout
TaskRunnerResult(retcode, timedout) == retcode = 0 /\ ~timedout

\* TaskRunner.run is entered with the given task and file system
InitTaskRunner(type, spec, exists) ==
    /\ trPc = "env"
    /\ trType = type
    /\ trSpec = spec
    /\ minicondaExists = exists
    /\ env = <<>>
    /\ script = ""
    /\ launched = <<>>
    /\ prOut = <<>>

\* ------------------------------------------------------------ Daemon.run
\* the daemons as start_daemons leaves them, the tasks as create_tasks queued them
InitDaemons ==
    /\ store = [t \in Tasks |-> [state |-> "queued", retry |-> 0]]
    /\ queue = Tasks
    /\ pc = [d \in Daemons |-> "sleep"]
    /\ task = [d \in Daemons |-> NoTask]
    /\ ranOk = [d \in Daemons |-> FALSE]
    /\ ok = [d \in Daemons |-> FALSE]
    /\ exc = [d \in Daemons |-> "none"]
    /\ log = [d \in Daemons |-> <<>>]
    /\ error = [t \in Tasks |-> ""]
    /\ launches = [t \in Tasks |-> 0]

\* ProcessRunner.__init__ with the given timeout
InitRunner(t) ==
    /\ timeout = t
    /\ runPc = "start"
    /\ monPc = "none"
    /\ sub = FALSE
    /\ proc = "none"
    /\ exitStatus = <<>>
    /\ return_code = <<>>
    /\ timed_out = FALSE
    /\ lockReleased = FALSE
    /\ expired = FALSE
    /\ caught = FALSE
    /\ signals = <<>>
    /\ unread = <<>>
    /\ emitted = <<>>
    /\ handled = <<>>
    /\ exitInTime = FALSE
    /\ result = <<>>

Init ==
    /\ InitDaemons
    /\ InitRunner(NoTimeout)
    /\ exitsOnOwn = TRUE
    /\ InitTaskRunner("subset", <<>>, TRUE)

\* time.sleep(self.queue_poll_interval): a new iteration starts
Sleep(d) ==
    /\ pc[d] = "sleep"
    /\ pc' = [pc EXCEPT ![d] = "claim"]
    /\ log' = [log EXCEPT ![d] = <<>>]
    /\ UNCHANGED <<store, queue, task, ranOk, ok, exc, error, launches, prvars, trvars>>

\* task = jo.get_next_task() returns a task; ran_ok = False
ClaimTask(d) ==
    /\ pc[d] = "claim"
    /\ \E t \in queue :
        /\ queue' = queue \ {t}
        /\ task' = [task EXCEPT ![d] = LoadTask(store, t)]
    /\ ranOk' = [ranOk EXCEPT ![d] = FALSE]
    /\ pc' = [pc EXCEPT ![d] = "mark_running"]
    /\ UNCHANGED <<store, log, ok, exc, error, launches, prvars, trvars>>

\* ClaimNone with a fault: update_job is called although no task was claimed
ClaimNone_Notifies(d) ==
    /\ pc[d] = "claim"
    /\ queue = {}
    /\ task' = [task EXCEPT ![d] = NoTask]
    /\ ranOk' = [ranOk EXCEPT ![d] = FALSE]
    /\ log' = [log EXCEPT ![d] = Append(@, Call("update_job", NoTask))]
    /\ pc' = [pc EXCEPT ![d] = "sleep"]
    /\ UNCHANGED <<store, queue, ok, exc, error, launches, prvars, trvars>>

\* task = jo.get_next_task() returns None: both `if` of the loop body are skipped
ClaimNone(d) ==
    /\ pc[d] = "claim"
    /\ queue = {}
    /\ task' = [task EXCEPT ![d] = NoTask]
    /\ ranOk' = [ranOk EXCEPT ![d] = FALSE]
    /\ pc' = [pc EXCEPT ![d] = "sleep"]
    /\ UNCHANGED <<store, queue, log, ok, exc, error, launches, prvars, trvars>>

\* jo.get_next_task() raises: nothing in run() catches it, the exception
\* leaves the `with` block and the loop, and the thread ends
ClaimError(d) ==
    /\ pc[d] = "claim"
    /\ pc' = [pc EXCEPT ![d] = "dead"]
    /\ exc' = [exc EXCEPT ![d] = "claim"]
    /\ UNCHANGED <<store, queue, task, ranOk, ok, log, error, launches, prvars, trvars>>

\* MarkRunning with a fault: the running state is set on the object, not persisted
MarkRunning_NoPersist(d) ==
    /\ pc[d] = "mark_running"
    /\ task' = [task EXCEPT ![d] = TaskSetRunning(task[d])]
    /\ pc' = [pc EXCEPT ![d] = "launch"]
    /\ UNCHANGED <<store, queue, ranOk, ok, exc, log, error, launches, prvars, trvars>>

\* task.set_running(); jo.update_task(task)
MarkRunning(d) ==
    /\ pc[d] = "mark_running"
    /\ LET tk == TaskSetRunning(task[d]) IN
        /\ task' = [task EXCEPT ![d] = tk]
        /\ store' = UpdateTask(store, tk)
        /\ log' = [log EXCEPT ![d] = Append(@, Call("update_task", tk))]
    /\ pc' = [pc EXCEPT ![d] = "launch"]
    /\ UNCHANGED <<queue, ranOk, ok, exc, error, launches, prvars, trvars>>

\* run_task -> TaskRunner.run -> ProcessRunner.run: subprocess.Popen succeeds,
\* the task's script is running
Launch(d) ==
    /\ pc[d] = "launch"
    /\ pc' = [pc EXCEPT ![d] = "exec"]
    /\ UNCHANGED <<store, queue, task, ranOk, ok, exc, log, error, launches, prvars, trvars>>

\* Launch, with the launch counted for the task (up to MaxLaunches)
LaunchCounted(d) ==
    /\ pc[d] = "launch"
    /\ launches[task[d].id] < MaxLaunches
    /\ pc' = [pc EXCEPT ![d] = "exec"]
    /\ launches' = [launches EXCEPT ![task[d].id] = @ + 1]
    /\ UNCHANGED <<store, queue, task, ranOk, ok, exc, log, error, prvars, trvars>>

\* subprocess.Popen raises (missing executable, permission): the exception
\* leaves ProcessRunner.run, TaskRunner.run, run_task and run uncaught
LaunchError(d) ==
    /\ pc[d] = "launch"
    /\ pc' = [pc EXCEPT ![d] = "dead"]
    /\ exc' = [exc EXCEPT ![d] = "launch"]
    /\ UNCHANGED <<store, queue, task, ranOk, ok, log, error, launches, prvars, trvars>>

\* ok = ts.run(task): the script exits with retcode; ProcessRunner is built
\* without a timeout, so timedout is False
TaskRunnerRun(d) ==
    /\ pc[d] = "exec"
    /\ \E retcode \in ExitCodes :
        ok' = [ok EXCEPT ![d] = TaskRunnerResult(retcode, FALSE)]
    /\ pc' = [pc EXCEPT ![d] = "outcome"]
    /\ UNCHANGED <<store, queue, task, ranOk, exc, log, error, launches, prvars, trvars>>

\* RunTaskOk with a fault: the completed state is set on the object but never persisted
RunTaskOk_NoPersist(d) ==
    /\ pc[d] = "outcome"
    /\ ok[d]
    /\ task' = [task EXCEPT ![d] = TaskSetCompleted(task[d])]
    /\ ranOk' = [ranOk EXCEPT ![d] = TRUE]
    /\ pc' = [pc EXCEPT ![d] = "zip"]
    /\ UNCHANGED <<store, queue, log, ok, exc, error, launches, prvars, trvars>>

\* run_task, if ok: task.set_completed(); jo.update_task(task); return True
RunTaskOk(d) ==
    /\ pc[d] = "outcome"
    /\ ok[d]
    /\ LET tk == TaskSetCompleted(task[d]) IN
        /\ task' = [task EXCEPT ![d] = tk]
        /\ store' = UpdateTask(store, tk)
        /\ log' = [log EXCEPT ![d] = Append(@, Call("update_task", tk))]
    /\ ranOk' = [ranOk EXCEPT ![d] = TRUE]
    /\ pc' = [pc EXCEPT ![d] = "zip"]
    /\ UNCHANGED <<queue, ok, exc, error, launches, prvars, trvars>>

\* RunTaskRetry with a fault: the retry test is off by one (<= for <)
RunTaskRetry_OffByOne(d) ==
    /\ pc[d] = "outcome"
    /\ ~ok[d]
    /\ task[d].retry <= max_retries
    /\ LET tk == TaskRetry(task[d]) IN
        /\ task' = [task EXCEPT ![d] = tk]
        /\ queue' = QueueTask(queue, tk.id)
        /\ log' = [log EXCEPT ![d] = Append(@, Call("queue_task", tk))]
    /\ pc' = [pc EXCEPT ![d] = "persist_retry"]
    /\ UNCHANGED <<store, ranOk, ok, exc, error, launches, prvars, trvars>>

\* run_task, else, retry_count < self.max_retries: task.retry();
\* jo.queue_task(task.get_job_id(), task.get_task_name())
RunTaskRetry(d) ==
    /\ pc[d] = "outcome"
    /\ ~ok[d]
    /\ task[d].retry < max_retries
    /\ LET tk == TaskRetry(task[d]) IN
        /\ task' = [task EXCEPT ![d] = tk]
        /\ queue' = QueueTask(queue, tk.id)
        /\ log' = [log EXCEPT ![d] = Append(@, Call("queue_task", tk))]
    /\ pc' = [pc EXCEPT ![d] = "persist_retry"]
    /\ UNCHANGED <<store, ranOk, ok, exc, error, launches, prvars, trvars>>

\* PersistRetry with a fault: update_task is reached on the failed branch only, the
\* retried task is not persisted
PersistRetry_Skipped(d) ==
    /\ pc[d] = "persist_retry"
    /\ pc' = [pc EXCEPT ![d] = "notify"]
    /\ UNCHANGED <<store, queue, task, ranOk, ok, exc, log, error, launches, prvars, trvars>>

\* run_task, after the retry branch: jo.update_task(task); return False
PersistRetry(d) ==
    /\ pc[d] = "persist_retry"
    /\ store' = UpdateTask(store, task[d])
    /\ log' = [log EXCEPT ![d] = Append(@, Call("update_task", task[d]))]
    /\ pc' = [pc EXCEPT ![d] = "notify"]
    /\ UNCHANGED <<queue, task, ranOk, ok, exc, error, launches, prvars, trvars>>

\* run_task, else, retries exhausted: task.set_failed("Unknown error");
\* jo.update_task(task); return False
RunTaskFailed(d) ==
    /\ pc[d] = "outcome"
    /\ ~ok[d]
    /\ ~(task[d].retry < max_retries)
    /\ LET tk == TaskSetFailed(task[d]) IN
        /\ task' = [task EXCEPT ![d] = tk]
        /\ store' = UpdateTask(store, tk)
        /\ log' = [log EXCEPT ![d] = Append(@, Call("update_task", tk))]
        /\ error' = [error EXCEPT ![tk.id] = "Unknown error"]
    /\ pc' = [pc EXCEPT ![d] = "notify"]
    /\ UNCHANGED <<queue, ranOk, ok, exc, launches, prvars, trvars>>

\* ZipResults with a fault: the results of a successful attempt are not packaged
ZipResults_Skipped(d) ==
    /\ pc[d] = "zip"
    /\ ranOk[d]
    /\ pc' = [pc EXCEPT ![d] = "notify"]
    /\ UNCHANGED <<store, queue, task, ranOk, ok, exc, log, error, launches, prvars,
                   trvars>>

\* if ran_ok: self.job_manager.zip_results(task)
ZipResults(d) ==
    /\ pc[d] = "zip"
    /\ ranOk[d]
    /\ log' = [log EXCEPT ![d] = Append(@, Call("zip_results", task[d]))]
    /\ pc' = [pc EXCEPT ![d] = "notify"]
    /\ UNCHANGED <<store, queue, task, ranOk, ok, exc, error, launches, prvars, trvars>>

\* UpdateJob with a fault: update_job is called for a terminal outcome only
UpdateJob_TerminalOnly(d) ==
    /\ pc[d] = "notify"
    /\ task[d] # NoTask
    /\ log' = [log EXCEPT ![d] =
                IF task[d].state \in {"completed", "failed"}
                THEN Append(@, Call("update_job", task[d]))
                ELSE @]
    /\ pc' = [pc EXCEPT ![d] = "sleep"]
    /\ UNCHANGED <<store, queue, task, ranOk, ok, exc, error, launches, prvars, trvars>>

\* if task: self.job_manager.update_job(task.get_job_id())
UpdateJob(d) ==
    /\ pc[d] = "notify"
    /\ task[d] # NoTask
    /\ log' = [log EXCEPT ![d] = Append(@, Call("update_job", task[d]))]
    /\ pc' = [pc EXCEPT ![d] = "sleep"]
    /\ UNCHANGED <<store, queue, task, ranOk, ok, exc, error, launches, prvars, trvars>>

Next ==
    \E d \in Daemons :
        \/ Sleep(d)
        \/ ClaimTask(d)
        \/ ClaimNone(d)
        \/ ClaimError(d)
        \/ MarkRunning(d)
        \/ Launch(d)
        \/ LaunchError(d)
        \/ TaskRunnerRun(d)
        \/ RunTaskOk(d)
        \/ RunTaskRetry(d)
        \/ PersistRetry(d)
        \/ RunTaskFailed(d)
        \/ ZipResults(d)
        \/ UpdateJob(d)

Spec == Init /\ [][Next]_vars

\* the daemon pool with the launches of every task counted
NextCounted ==
    \E d \in Daemons :
        \/ Sleep(d)
        \/ ClaimTask(d)
        \/ ClaimNone(d)
        \/ ClaimError(d)
        \/ MarkRunning(d)
        \/ LaunchCounted(d)
        \/ LaunchError(d)
        \/ TaskRunnerRun(d)
        \/ RunTaskOk(d)
        \/ RunTaskRetry(d)
        \/ PersistRetry(d)
        \/ RunTaskFailed(d)
        \/ ZipResults(d)
        \/ UpdateJob(d)

SpecCounted == Init /\ [][NextCounted]_vars

\* ------------------------------------------------------ ProcessRunner.run
\* bound: characters of output the subprocess writes
MaxOutput == 3

\* the output alphabet: a printable character and the line terminator
NL == "\n"

Chars == {"x", NL}

\* the 1-based position of the first NL of text, 0 if there is none
FirstNL(text) ==
    IF \E i \in 1..Len(text) : text[i] = NL
    THEN CHOOSE i \in 1..Len(text) : text[i] = NL /\ \A j \in 1..(i - 1) : text[j] # NL
    ELSE 0

\* what stdout.readline() returns on the buffered text: the first line with its
\* terminator, or at end of file all that is left (possibly nothing)
ReadlineText(text) ==
    IF FirstNL(text) > 0 THEN SubSeq(text, 1, FirstNL(text)) ELSE text

\* handle_output(output): nothing for an empty output; else one trailing "\n"
\* is cut off and the rest goes to echo, log file (with "\n" added) and handler
HandleOutput(hs, output) ==
    IF output = <<>>
    THEN hs
    ELSE Append(hs, IF output[Len(output)] = NL
                    THEN SubSeq(output, 1, Len(output) - 1)
                    ELSE output)

\* the text the log file holds after the given handle_output calls:
\* self.log_file.write(output + "\n") for each
RECURSIVE LogText(_)
LogText(hs) ==
    IF hs = <<>> THEN <<>> ELSE hs[1] \o <<NL>> \o LogText(Tail(hs))

None == <<>>

\* StartMonitor with a fault: a monitor is started for a timeout of 0 as well
StartMonitor_ZeroTimeout ==
    /\ runPc = "start"
    /\ monPc' = IF timeout >= 0 THEN "wait" ELSE "none"
    /\ runPc' = "popen"
    /\ UNCHANGED <<timeout, exitsOnOwn, sub, proc, exitStatus, return_code, timed_out,
                   lockReleased, expired, caught, signals,
                   unread, emitted, handled, exitInTime, result, dvars, trvars>>

\* if self.timeout > 0: self.monitor = ProcessMonitor(...); self.monitor.start()
\* (the constructor acquires run_lock in the calling thread)
StartMonitor ==
    /\ runPc = "start"
    /\ monPc' = IF timeout > 0 THEN "wait" ELSE "none"
    /\ runPc' = "popen"
    /\ UNCHANGED <<timeout, exitsOnOwn, sub, proc, exitStatus, return_code, timed_out,
                   lockReleased, expired, caught, signals,
                   unread, emitted, handled, exitInTime, result, dvars, trvars>>

\* self.sub = subprocess.Popen(..., preexec_fn=os.setsid): the child runs as the
\* leader of a new process group
Popen ==
    /\ runPc = "popen"
    /\ sub' = TRUE
    /\ proc' = "alive"
    /\ runPc' = "readline"
    /\ UNCHANGED <<timeout, exitsOnOwn, monPc, exitStatus, return_code, timed_out,
                   lockReleased, expired, caught, signals,
                   unread, emitted, handled, exitInTime, result, dvars, trvars>>

\* subprocess.Popen raises: run() is left by the exception, self.sub stays None
\* and a started monitor keeps waiting
PopenError ==
    /\ runPc = "popen"
    /\ runPc' = "raised"
    /\ UNCHANGED <<timeout, exitsOnOwn, monPc, sub, proc, exitStatus, return_code,
                   timed_out, lockReleased, expired, caught, signals,
                   unread, emitted, handled, exitInTime, result, dvars, trvars>>

\* self.handle_output(self.sub.stdout.readline()): blocks until a whole line can
\* be read or the pipe is at end of file (the subprocess has exited)
Readline ==
    /\ runPc = "readline"
    /\ FirstNL(unread) > 0 \/ proc # "alive"
    /\ LET output == ReadlineText(unread) IN
        /\ handled' = HandleOutput(handled, output)
        /\ unread' = SubSeq(unread, Len(output) + 1, Len(unread))
    /\ runPc' = "poll"
    /\ UNCHANGED <<timeout, exitsOnOwn, monPc, sub, proc, exitStatus, return_code,
                   timed_out, lockReleased, expired, caught, signals,
                   emitted, exitInTime, result, dvars, trvars>>

\* Poll with a fault: recording the exit code clears the timed_out flag
Poll_ResetsFlag ==
    /\ runPc = "poll"
    /\ IF proc = "alive"
       THEN /\ runPc' = "readline"
            /\ UNCHANGED <<proc, return_code, timed_out>>
       ELSE /\ return_code' = exitStatus
            /\ proc' = "reaped"
            /\ timed_out' = FALSE
            /\ runPc' = "drain"
    /\ UNCHANGED <<timeout, exitsOnOwn, monPc, sub, exitStatus,
                   lockReleased, expired, caught, signals,
                   unread, emitted, handled, exitInTime, result, dvars, trvars>>

\* self.return_code = self.sub.poll(); while self.return_code is None: ...
Poll ==
    /\ runPc = "poll"
    /\ IF proc = "alive"
       THEN /\ runPc' = "readline"
            /\ UNCHANGED <<proc, return_code>>
       ELSE /\ return_code' = exitStatus
            /\ proc' = "reaped"
            /\ runPc' = "drain"
    /\ UNCHANGED <<timeout, exitsOnOwn, monPc, sub, exitStatus, timed_out,
                   lockReleased, expired, caught, signals,
                   unread, emitted, handled, exitInTime, result, dvars, trvars>>

\* Drain with a fault: what is left in the pipe after the exit is thrown away
Drain_Discards ==
    /\ runPc = "drain"
    /\ unread' = <<>>
    /\ runPc' = "set_done"
    /\ UNCHANGED <<timeout, exitsOnOwn, monPc, sub, proc, exitStatus, return_code,
                   timed_out, lockReleased, expired, caught, signals,
                   emitted, handled, exitInTime, result, dvars, trvars>>

\* self.handle_output(self.sub.stdout.read()); the log file is closed
Drain ==
    /\ runPc = "drain"
    /\ handled' = HandleOutput(handled, unread)
    /\ unread' = <<>>
    /\ runPc' = "set_done"
    /\ UNCHANGED <<timeout, exitsOnOwn, monPc, sub, proc, exitStatus, return_code,
                   timed_out, lockReleased, expired, caught, signals,
                   emitted, exitInTime, result, dvars, trvars>>

\* if self.monitor is not None: self.monitor.set_done()
SetDone ==
    /\ runPc = "set_done"
    /\ lockReleased' = (monPc # "none")
    /\ runPc' = "join"
    /\ UNCHANGED <<timeout, exitsOnOwn, monPc, sub, proc, exitStatus, return_code,
                   timed_out, expired, caught, signals,
                   unread, emitted, handled, exitInTime, result, dvars, trvars>>

\* JoinAndReturn with a fault: run() returns without joining the monitor thread
JoinAndReturn_NoJoin ==
    /\ runPc = "join"
    /\ result' = <<return_code[1], timed_out>>
    /\ runPc' = "returned"
    /\ UNCHANGED <<timeout, exitsOnOwn, monPc, sub, proc, exitStatus, return_code,
                   timed_out, lockReleased, expired, caught, signals, unread,
                   emitted, handled, exitInTime, dvars, trvars>>

\* self.monitor.join() (if there is a monitor);
\* return (self.sub.returncode, self.timed_out)
JoinAndReturn ==
    /\ runPc = "join"
    /\ monPc \in {"none", "done"}
    /\ result' = <<return_code[1], timed_out>>
    /\ runPc' = "returned"
    /\ UNCHANGED <<timeout, exitsOnOwn, monPc, sub, proc, exitStatus, return_code,
                   timed_out, lockReleased, expired, caught, signals, unread,
                   emitted, handled, exitInTime, dvars, trvars>>

RunnerStep ==
    \/ StartMonitor
    \/ Popen
    \/ PopenError
    \/ Readline
    \/ Poll
    \/ Drain
    \/ SetDone
    \/ JoinAndReturn

\* --------------------------------------------------------- ProcessMonitor.run
\* acquired = self.run_lock.acquire(timeout=self.timeout) returns True
MonitorReleased ==
    /\ monPc = "wait"
    /\ lockReleased
    /\ monPc' = "done"
    /\ UNCHANGED <<timeout, exitsOnOwn, runPc, sub, proc, exitStatus, return_code,
                   timed_out, lockReleased, expired, caught, signals,
                   unread, emitted, handled, exitInTime, result, dvars, trvars>>

\* MonitorExpired with a fault: the timed wait gives up although the lock has
\* been released
MonitorExpired_IgnoresRelease ==
    /\ monPc = "wait"
    /\ expired' = TRUE
    /\ monPc' = "check"
    /\ UNCHANGED <<timeout, exitsOnOwn, runPc, sub, proc, exitStatus, return_code,
                   timed_out, lockReleased, caught, signals,
                   unread, emitted, handled, exitInTime, result, dvars, trvars>>

\* the deadline passes with the lock still held: acquire returns False
MonitorExpired ==
    /\ monPc = "wait"
    /\ ~lockReleased
    /\ expired' = TRUE
    /\ monPc' = "check"
    /\ UNCHANGED <<timeout, exitsOnOwn, runPc, sub, proc, exitStatus, return_code,
                   timed_out, lockReleased, caught, signals,
                   unread, emitted, handled, exitInTime, result, dvars, trvars>>

\* TimeoutCheck with a fault: the recorded exit code is not looked at
TimeoutCheck_NoTest ==
    /\ monPc = "check"
    /\ timed_out' = TRUE
    /\ monPc' = "term"
    /\ UNCHANGED <<timeout, exitsOnOwn, runPc, sub, proc, exitStatus, return_code,
                   lockReleased, expired, caught, signals,
                   unread, emitted, handled, exitInTime, result, dvars, trvars>>

\* timeout_if_not_complete: if self.return_code is None: self.timed_out = True
TimeoutCheck ==
    /\ monPc = "check"
    /\ IF return_code = None
       THEN /\ timed_out' = TRUE
            /\ monPc' = "term"
       ELSE /\ monPc' = "done"
            /\ UNCHANGED timed_out
    /\ UNCHANGED <<timeout, exitsOnOwn, runPc, sub, proc, exitStatus, return_code,
                   lockReleased, expired, caught, signals,
                   unread, emitted, handled, exitInTime, result, dvars, trvars>>

\* the effect of signal sig on the process group: SIGKILL ends a live process,
\* SIGTERM ends it unless the command handles or ignores the signal
Deliver(sig) ==
    /\ signals' = Append(signals, sig)
    /\ IF proc = "alive"
       THEN \/ /\ proc' = "zombie"
               /\ exitStatus' = <<0 - sig>>
            \/ /\ sig = SIGTERM
               /\ UNCHANGED <<proc, exitStatus>>
       ELSE UNCHANGED <<proc, exitStatus>>

\* SendTerm with a fault: after the error the monitor does not end, it tries again
SendTerm_Retries ==
    /\ monPc = "term"
    /\ IF ~sub \/ proc = "reaped"
       THEN /\ caught' = TRUE
            /\ UNCHANGED <<monPc, proc, exitStatus, signals>>
       ELSE /\ Deliver(SIGTERM)
            /\ monPc' = "grace"
            /\ UNCHANGED caught
    /\ UNCHANGED <<timeout, exitsOnOwn, runPc, sub, return_code, timed_out,
                   lockReleased, expired,
                   unread, emitted, handled, exitInTime, result, dvars, trvars>>

\* os.killpg(os.getpgid(self.sub.pid), signal.SIGTERM): self.sub.pid raises while
\* self.sub is None, getpgid raises once the child has been reaped; the exception
\* is caught by ProcessMonitor.run, which prints it and ends
SendTerm ==
    /\ monPc = "term"
    /\ IF ~sub \/ proc = "reaped"
       THEN /\ caught' = TRUE
            /\ monPc' = "done"
            /\ UNCHANGED <<proc, exitStatus, signals>>
       ELSE /\ Deliver(SIGTERM)
            /\ monPc' = "grace"
            /\ UNCHANGED caught
    /\ UNCHANGED <<timeout, exitsOnOwn, runPc, sub, return_code, timed_out,
                   lockReleased, expired,
                   unread, emitted, handled, exitInTime, result, dvars, trvars>>

\* time.sleep(5)
GraceSleep ==
    /\ monPc = "grace"
    /\ monPc' = "kill"
    /\ UNCHANGED <<timeout, exitsOnOwn, runPc, sub, proc, exitStatus, return_code,
                   timed_out, lockReleased, expired, caught, signals,
                   unread, emitted, handled, exitInTime, result, dvars, trvars>>

\* SendKill with a fault: the kill is sent only to a child that is still running
SendKill_OnlyIfAlive ==
    /\ monPc = "kill"
    /\ IF proc = "alive"
       THEN Deliver(SIGKILL)
       ELSE UNCHANGED <<proc, exitStatus, signals>>
    /\ monPc' = "done"
    /\ UNCHANGED <<timeout, exitsOnOwn, runPc, sub, return_code, timed_out,
                   lockReleased, expired, caught,
                   unread, emitted, handled, exitInTime, result, dvars, trvars>>

\* try: os.killpg(os.getpgid(self.sub.pid), signal.SIGKILL) except: pass
\* (getpgid raises once the runner's poll has reaped the child; a child that has
\* exited but is not yet reaped still has its process group)
SendKill ==
    /\ monPc = "kill"
    /\ IF proc = "reaped"
       THEN UNCHANGED <<proc, exitStatus, signals>>
       ELSE Deliver(SIGKILL)
    /\ monPc' = "done"
    /\ UNCHANGED <<timeout, exitsOnOwn, runPc, sub, return_code, timed_out,
                   lockReleased, expired, caught,
                   unread, emitted, handled, exitInTime, result, dvars, trvars>>

MonitorStep ==
    \/ MonitorReleased
    \/ MonitorExpired
    \/ TimeoutCheck
    \/ SendTerm
    \/ GraceSleep
    \/ SendKill

\* ------------------------------------------------------------ the subprocess
\* the command writes a character to its stdout/stderr pipe
Emit ==
    /\ proc = "alive"
    /\ Len(emitted) < MaxOutput
    /\ \E c \in Chars :
        /\ unread' = Append(unread, c)
        /\ emitted' = Append(emitted, c)
    /\ UNCHANGED <<timeout, exitsOnOwn, runPc, monPc, sub, proc, exitStatus,
                   return_code, timed_out, lockReleased, expired, caught, signals,
                   handled, exitInTime, result, dvars, trvars>>

\* the command exits by itself
Exit ==
    /\ proc = "alive"
    /\ exitsOnOwn
    /\ \E code \in ExitCodes : exitStatus' = <<code>>
    /\ proc' = "zombie"
    /\ exitInTime' = ~expired
    /\ UNCHANGED <<timeout, exitsOnOwn, runPc, monPc, sub, return_code, timed_out,
                   lockReleased, expired, caught, signals, unread, emitted,
                   handled, result, dvars, trvars>>

ProcessStep == Emit \/ Exit

InitPR ==
    /\ InitDaemons
    /\ \E t \in {NoTimeout, 0, SomeTimeout} : InitRunner(t)
    /\ exitsOnOwn \in BOOLEAN
    /\ InitTaskRunner("subset", <<>>, TRUE)

NextPR == RunnerStep \/ MonitorStep \/ ProcessStep

SpecPR == InitPR /\ [][NextPR]_vars

\* the threads are scheduled: a thread that can take its next step takes it, and
\* the monitor's timed wait does end.  The subprocess owes nothing.
FairSpecPR == SpecPR /\ WF_vars(RunnerStep) /\ WF_vars(MonitorStep)

\* C10: with a timeout configured and a launched command that never exits on
\* its own: once the monitor has run to its end after the deadline, the run is
\* marked timed out and SIGTERM was sent to the process group first, followed by
\* SIGKILL unless the child was gone by then; run() eventually returns; and it
\* returns timed_out = true.
C10_TimeoutTerminates ==
    (timeout > 0 /\ ~exitsOnOwn) =>
        /\ []((sub /\ expired /\ monPc = "done") =>
                /\ timed_out
                /\ signals # <<>> /\ signals[1] = SIGTERM
                /\ (signals = <<SIGTERM, SIGKILL>> \/ proc = "reaped"))
        /\ [](sub => <>(runPc = "returned"))
        /\ [](runPc = "returned" => timed_out)

\* ------------------------------------------- TaskRunner.run inside run_task
\* name, conda_path and env are set up from the task specification
TRBuildEnv(d) ==
    /\ pc[d] = "launch"
    /\ trPc = "env"
    /\ env' = BuildEnv(BaseEnv(minicondaExists), trSpec)
    /\ trPc' = "script"
    /\ UNCHANGED <<dvars, prvars, trType, trSpec, minicondaExists, script, launched,
                   prOut>>

\* the script is chosen by the task type; cmd = script
TRSelectScript(d) ==
    /\ pc[d] = "launch"
    /\ trPc = "script"
    /\ script' = SelectScript(trType)
    /\ trPc' = "run"
    /\ UNCHANGED <<dvars, prvars, trType, trSpec, minicondaExists, env, launched,
                   prOut>>

\* pr = ProcessRunner(cmd, name=name, env_vars=env);
\* (retcode, timedout) = pr.run()
TRRunProcess(d) ==
    /\ pc[d] = "launch"
    /\ trPc = "run"
    /\ launched' = Append(launched, script)
    /\ \E out \in PROutcomes : prOut' = out
    /\ pc' = [pc EXCEPT ![d] = "exec"]
    /\ trPc' = "return"
    /\ UNCHANGED <<store, queue, task, ranOk, ok, exc, log, error, launches, prvars, trType, trSpec,
                   minicondaExists, env, script>>

\* return retcode == 0 and not timedout; run_task: ok = ts.run(task)
TRReturn(d) ==
    /\ pc[d] = "exec"
    /\ trPc = "return"
    /\ ok' = [ok EXCEPT ![d] = TaskRunnerResult(prOut[1], prOut[2])]
    /\ pc' = [pc EXCEPT ![d] = "outcome"]
    /\ trPc' = "done"
    /\ UNCHANGED <<store, queue, task, ranOk, exc, log, error, launches, prvars, trType, trSpec,
                   minicondaExists, env, script, launched, prOut>>

\* daemon 1 has claimed task 1 at some retry count, persisted it as running and
\* is about to call run_task; TaskRunner.run gets a task of some type and
\* specification
InitTR ==
    /\ \E r \in 0..max_retries :
        LET tk == [id |-> 1, state |-> "running", retry |-> r] IN
        /\ store = [t \in Tasks |-> IF t = 1 THEN [state |-> "running", retry |-> r]
                                             ELSE [state |-> "queued", retry |-> 0]]
        /\ task = [d \in Daemons |-> IF d = 1 THEN tk ELSE NoTask]
        /\ log = [d \in Daemons |-> IF d = 1 THEN <<Call("update_task", tk)>> ELSE <<>>]
    /\ queue = Tasks \ {1}
    /\ pc = [d \in Daemons |-> IF d = 1 THEN "launch" ELSE "sleep"]
    /\ ranOk = [d \in Daemons |-> FALSE]
    /\ ok = [d \in Daemons |-> FALSE]
    /\ exc = [d \in Daemons |-> "none"]
    /\ error = [t \in Tasks |-> ""]
    /\ launches = [t \in Tasks |-> 0]
    /\ InitRunner(NoTimeout)
    /\ exitsOnOwn = TRUE
    /\ \E type \in TaskTypes, spec \in TaskSpecs, exists \in BOOLEAN :
        InitTaskRunner(type, spec, exists)

NextTR ==
    \E d \in Daemons :
        \/ TRBuildEnv(d)
        \/ TRSelectScript(d)
        \/ TRRunProcess(d)
        \/ TRReturn(d)
        \/ RunTaskOk(d)
        \/ RunTaskRetry(d)
        \/ PersistRetry(d)
        \/ RunTaskFailed(d)
        \/ ZipResults(d)
        \/ UpdateJob(d)

SpecTR == InitTR /\ [][NextTR]_vars

\* ------------------------- the path Daemon -> TaskRunner -> ProcessRunner
\* DaemonPathTimeout with a fault: TaskRunner configures a timeout
DaemonPathTimeout_Configured == SomeTimeout

\* the timeout of the ProcessRunner that TaskRunner builds:
\* ProcessRunner(cmd, name=name, env_vars=env) passes none, the default applies
DaemonPathTimeout == NoTimeout

\* (retcode, timedout) = pr.run() has returned
TRCollect(d) ==
    /\ pc[d] = "launch"
    /\ trPc = "run"
    /\ runPc = "returned"
    /\ prOut' = result
    /\ pc' = [pc EXCEPT ![d] = "exec"]
    /\ trPc' = "return"
    /\ UNCHANGED <<store, queue, task, ranOk, ok, exc, log, error, launches, prvars,
                   trType, trSpec, minicondaExists, env, script, launched>>

\* pr.run() was left by the exception of Popen: nothing catches it in
\* TaskRunner.run, run_task or run, and the daemon thread ends
TRPopenRaised(d) ==
    /\ pc[d] = "launch"
    /\ trPc = "run"
    /\ runPc = "raised"
    /\ pc' = [pc EXCEPT ![d] = "dead"]
    /\ exc' = [exc EXCEPT ![d] = "launch"]
    /\ trPc' = "raised"
    /\ UNCHANGED <<store, queue, task, ranOk, ok, log, error, launches, prvars,
                   trType, trSpec, minicondaExists, env, script, launched, prOut>>

\* daemon 1 has claimed task 1 at some retry count and persisted it as running;
\* TaskRunner.run has built env, chosen the script and constructed the
\* ProcessRunner, whose run() is about to start
InitDP ==
    /\ \E r \in 0..max_retries :
        LET tk == [id |-> 1, state |-> "running", retry |-> r] IN
        /\ store = [t \in Tasks |-> IF t = 1 THEN [state |-> "running", retry |-> r]
                                             ELSE [state |-> "queued", retry |-> 0]]
        /\ task = [d \in Daemons |-> IF d = 1 THEN tk ELSE NoTask]
        /\ log = [d \in Daemons |-> IF d = 1 THEN <<Call("update_task", tk)>> ELSE <<>>]
    /\ queue = Tasks \ {1}
    /\ pc = [d \in Daemons |-> IF d = 1 THEN "launch" ELSE "sleep"]
    /\ ranOk = [d \in Daemons |-> FALSE]
    /\ ok = [d \in Daemons |-> FALSE]
    /\ exc = [d \in Daemons |-> "none"]
    /\ error = [t \in Tasks |-> ""]
    /\ launches = [t \in Tasks |-> 0]
    /\ InitRunner(DaemonPathTimeout)
    /\ exitsOnOwn \in BOOLEAN
    /\ trPc = "run"
    /\ trType \in TaskTypes
    /\ trSpec = [k \in {"VARIABLES"} |-> List(<<"analysed_sst">>)]
    /\ minicondaExists = TRUE
    /\ env = BuildEnv(BaseEnv(minicondaExists), trSpec)
    /\ script = SelectScript(trType)
    /\ launched = <<script>>
    /\ prOut = <<>>

NextDP ==
    \/ StartMonitor
    \/ Popen
    \/ PopenError
    \/ Readline
    \/ Poll
    \/ Drain
    \/ SetDone
    \/ JoinAndReturn
    \/ Emit
    \/ Exit
    \/ \E d \in Daemons :
        \/ TRCollect(d)
        \/ TRPopenRaised(d)
        \/ TRReturn(d)
        \/ RunTaskOk(d)
        \/ RunTaskRetry(d)
        \/ PersistRetry(d)
        \/ RunTaskFailed(d)
        \/ ZipResults(d)
        \/ UpdateJob(d)

SpecDP == InitDP /\ [][NextDP]_vars

\* ------------------------------------------------- properties of the daemon pool
CountOp(s, op) == Cardinality({i \in 1..Len(s) : s[i].op = op})

\* daemon d has finished an iteration in which it claimed a task
IterDone(d) == pc[d] = "sleep" /\ task[d] # NoTask

\* the retry count of the task as daemon d claimed it (first call: the running persist)
ClaimedRetry(d) == log[d][1].retry

\* daemon d has claimed task t and has not yet persisted the outcome of the attempt
Holds(d, t) ==
    /\ task[d].id = t
    /\ pc[d] \in {"mark_running", "launch", "exec", "outcome", "persist_retry"}

\* C1: for every task, at most one daemon is between claiming it and persisting
\* the outcome of the attempt.
C1_AtMostOneHolder ==
    \A t \in Tasks : Cardinality({d \in Daemons : Holds(d, t)}) <= 1

\* C2: a finished iteration whose TaskRunner result was success left the task
\* completed, persisted that state, made no queue_task call and made exactly one
\* update_job call.
C2_SuccessCompletes ==
    \A d \in Daemons :
        /\ CountOp(log[d], "update_job") <= 1
        /\ (IterDone(d) /\ ok[d]) =>
            /\ task[d].state = "completed"
            /\ \E i \in 1..Len(log[d]) : log[d][i] = Call("update_task", task[d])
            /\ \A i \in 1..Len(log[d]) :
                log[d][i].op = "update_task" => log[d][i].state \in {"running", "completed"}
            /\ CountOp(log[d], "queue_task") = 0
            /\ CountOp(log[d], "update_job") = 1

C2_Witness ==
    \E d \in Daemons : IterDone(d) /\ ok[d] /\ CountOp(log[d], "update_job") = 1

\* C3: a finished iteration whose attempt failed with retry_count < max_retries
\* raised the retry count by exactly 1, left the task queued, persisted that
\* record and called queue_task exactly once.
C3_FailureRetries ==
    \A d \in Daemons :
        (IterDone(d) /\ ~ok[d] /\ ClaimedRetry(d) < max_retries) =>
            /\ task[d].state = "queued"
            /\ task[d].retry = ClaimedRetry(d) + 1
            /\ \E i \in 1..Len(log[d]) : log[d][i] = Call("update_task", task[d])
            /\ \A i \in 1..Len(log[d]) :
                log[d][i].op = "update_task" => log[d][i].state \in {"running", "queued"}
            /\ CountOp(log[d], "queue_task") = 1

C3_Witness ==
    \E d \in Daemons :
        /\ IterDone(d) /\ ~ok[d] /\ ClaimedRetry(d) < max_retries
        /\ CountOp(log[d], "queue_task") = 1

\* C4: a finished iteration whose attempt failed with retry_count = max_retries
\* marked the task failed, persisted it, made no queue_task call and made
\* exactly one update_job call.
C4_ExhaustedFails ==
    \A d \in Daemons :
        (IterDone(d) /\ ~ok[d] /\ ClaimedRetry(d) = max_retries) =>
            /\ task[d].state = "failed"
            /\ task[d].retry = max_retries
            /\ \E i \in 1..Len(log[d]) : log[d][i] = Call("update_task", task[d])
            /\ CountOp(log[d], "queue_task") = 0
            /\ CountOp(log[d], "update_job") = 1

C4_Witness ==
    \E d \in Daemons :
        /\ IterDone(d) /\ ~ok[d] /\ ClaimedRetry(d) = max_retries
        /\ task[d].state = "failed"

C6_RetryMonotoneBounded ==
    [][\A t \in Tasks :
        /\ store'[t].retry >= store[t].retry
        /\ store'[t].retry <= max_retries]_vars

TaskEdges ==
    {<<"queued", "running">>, <<"running", "completed">>,
     <<"running", "queued">>, <<"running", "failed">>}

\* C7: the persisted state of a task changes only along queued -> running ->
\* {completed, queued, failed}; once it is completed or failed no daemon changes
\* the record, re-queues the task or holds it for execution.
C7_TaskLifecycle ==
    [][\A t \in Tasks :
        /\ store'[t].state # store[t].state =>
            <<store[t].state, store'[t].state>> \in TaskEdges
        /\ store[t].state \in {"completed", "failed"} =>
            /\ store'[t] = store[t]
            /\ t \notin queue'
            /\ \A d \in Daemons : ~Holds(d, t)']_vars

\* C8: a daemon whose claim step raised is not terminated.
C8_ClaimErrorSurvived ==
    \A d \in Daemons : exc[d] = "claim" => pc[d] # "dead"

\* C9: a daemon whose subprocess launch raised is not terminated and has moved
\* the claimed task out of running (re-queued with retry_count + 1, or failed).
C9_LaunchErrorIsFailure ==
    \A d \in Daemons : exc[d] = "launch" =>
        /\ pc[d] # "dead"
        /\ task[d].state \in {"queued", "failed"}
        /\ store[task[d].id].state # "running"

\* ------------------------------------------- properties of ProcessRunner.run
\* C11: with a timeout configured, a subprocess that exited with code 0 before
\* the monitor's deadline expired is never signalled, and run() returns
\* (0, timed_out = False), whatever the runner had read or polled by then.
C11_ExitBeforeDeadline ==
    (timeout > 0 /\ exitInTime /\ exitStatus = <<0>>) =>
        /\ signals = <<>>
        /\ ~timed_out
        /\ runPc = "returned" => result = <<0, FALSE>>

\* C12: when the runner releases the monitor (set_done) before the monitor's
\* deadline has expired, the monitor ends without calling
\* timeout_if_not_complete: from its wait it can only go to its end, no signal
\* has been or is sent and timed_out is False.
C12_DoneBeforeDeadline ==
    /\ []((lockReleased /\ ~expired) =>
            /\ monPc \in {"wait", "done"}
            /\ ~timed_out
            /\ signals = <<>>)
    /\ [][(lockReleased /\ monPc = "wait") => monPc' \in {"wait", "done"}]_vars

C12_Witness ==
    lockReleased /\ ~expired /\ monPc = "done" /\ runPc = "returned"

\* C13: when timeout_if_not_complete runs after the runner has recorded the exit
\* code (the deadline expired before the runner released the monitor), it sends
\* no signal and leaves timed_out unchanged, and the monitor ends; so a monitor
\* whose deadline expired after the exit code was recorded never signals and
\* never sets timed_out.
C13_ExpiredAfterExitCode ==
    [][/\ (monPc = "check" /\ return_code # None) =>
            /\ monPc' \in {"check", "done"}
            /\ timed_out' = timed_out
            /\ signals' = signals
       /\ (monPc = "wait" /\ monPc' = "check" /\ return_code # None) =>
            (~timed_out /\ signals = <<>>)]_vars

C13_Witness ==
    /\ expired /\ ~lockReleased /\ monPc = "done" /\ return_code # None
    /\ ~timed_out /\ signals = <<>>

\* C14 as stated: after SIGTERM and the grace period, SIGKILL is sent only if the
\* subprocess is still alive, and not if the runner has recorded its exit code.
C14_KillOnlyIfAlive ==
    [][(monPc = "kill" /\ monPc' # "kill") =>
        /\ signals' # signals => proc = "alive"
        /\ return_code # None => signals' = signals]_vars

\* C14 amended: after SIGTERM and the grace period, SIGKILL is sent to the
\* process group unless the runner has recorded the exit code by then; a
\* subprocess that has exited but whose exit code is not yet recorded is still
\* sent SIGKILL.
C14_KillUnlessRecorded ==
    [][(monPc = "kill" /\ monPc' # "kill") =>
        IF return_code # None
        THEN signals' = signals
        ELSE signals' = Append(signals, SIGKILL)]_vars

C14_Witness ==
    monPc = "done" /\ signals = <<SIGTERM>> /\ timed_out /\ return_code # None

\* C15: when a monitor was started, the runner releases it (set_done) only after
\* it has recorded the exit code, run() returns only after the monitor thread
\* has ended, and no signal is sent once run() has returned.
C15_JoinBeforeReturn ==
    /\ [](lockReleased => return_code # None)
    /\ []((runPc = "returned" /\ timeout > 0) => monPc = "done")
    /\ [][runPc = "returned" => signals' = signals]_vars

C15_Witness ==
    runPc = "returned" /\ lockReleased /\ expired /\ signals # <<>>

\* C16: with no timeout configured (timeout <= 0) no monitor exists in any
\* state: no signal is sent, timed_out is False, and run() has returned only if
\* the subprocess exited by itself, with the exit code it chose.
C16_NoTimeoutNoMonitor ==
    timeout <= 0 =>
        /\ monPc = "none"
        /\ ~expired
        /\ signals = <<>>
        /\ ~timed_out
        /\ runPc = "returned" =>
            /\ exitsOnOwn
            /\ exitStatus[1] \in ExitCodes
            /\ result = <<exitStatus[1], FALSE>>

C16_Witness ==
    timeout <= 0 /\ runPc = "returned"

\* ------------------------------------------ properties of the output handling
\* text, ended by a line terminator if its last line has none
Terminated(text) ==
    IF text = <<>> \/ text[Len(text)] = NL THEN text ELSE Append(text, NL)

\* the part of the emitted text that has been read from the pipe
Consumed == SubSeq(emitted, 1, Len(emitted) - Len(unread))

\* C19: the texts handed to the log file and the handler, each followed by a
\* line terminator, are in every state exactly the emitted text read so far, in
\* order (a trailing partial line gets the terminator it lacks); what is not yet
\* read is the rest of the emitted text; and after the final drain nothing is
\* left unread.
C19_OutputReproduced ==
    /\ Consumed \o unread = emitted
    /\ LogText(handled) = Terminated(Consumed)
    /\ runPc \in {"set_done", "join", "returned"} => unread = <<>>

\* a trailing partial line was delivered by the final drain (only read() returns
\* text with a line terminator inside)
C19_Witness ==
    /\ runPc = "returned"
    /\ emitted = <<NL, NL, "x">>
    /\ handled = << <<>>, <<NL, "x">> >>

\* C20: every text handed to echo, log file and handler is one output line: it
\* has no line terminator inside.
C20_OneLinePerCall ==
    \A i \in 1..Len(handled) : FirstNL(handled[i]) = 0

\* ---------------------------------------------- properties of TaskRunner.run
\* what a failed attempt claimed at retry count r leaves in the store
FailureOutcome(r) ==
    IF r < max_retries
    THEN [state |-> "queued", retry |-> r + 1]
    ELSE [state |-> "failed", retry |-> r]

\* C17: TaskRunner.run returns True exactly when pr.run() returned exit code 0
\* with timedout False; an iteration whose run was not a success, timed out
\* (whatever the exit code) or ended with a nonzero code alike, leaves the task
\* re-queued with retry + 1 or, at max_retries, failed.
C17_SuccessIffZeroAndInTime ==
    \A d \in Daemons :
        /\ (trPc = "done" /\ task[d] # NoTask) =>
            (ok[d] <=> (prOut[1] = 0 /\ ~prOut[2]))
        /\ (trPc = "done" /\ IterDone(d) /\ (prOut[2] \/ prOut[1] # 0)) =>
            /\ ~ok[d]
            /\ store[task[d].id] = FailureOutcome(ClaimedRetry(d))

C17_Witness ==
    \E d \in Daemons :
        /\ trPc = "done" /\ IterDone(d) /\ prOut = <<0, TRUE>>
        /\ store[task[d].id].state = "queued"

\* C18: for a task whose type is not a supported one TaskRunner hands no
\* command to ProcessRunner, and the outcome of the run is failure.
C18_UnsupportedTypeFails ==
    trType \notin SupportedTypes =>
        /\ launched = <<>>
        /\ \A d \in Daemons : (trPc = "done" /\ task[d] # NoTask) => ~ok[d]

\* the keys of the fixed base environment
BaseKeys == {"PYTHONPATH", "CONDA_PATH", "OUT_PATH"}

\* C21: once built, env has exactly the base keys and the keys of the task
\* specification; a specification key holds the coerced specification value
\* (a string as it is, a number as its decimal string, a list joined with ",",
\* so ["a","b","c"] gives "a,b,c"), also for a key of the base; a base key the
\* specification lacks holds its base value.
C21_EnvFromSpec ==
    trPc # "env" =>
        /\ DOMAIN env = BaseKeys \cup DOMAIN trSpec
        /\ \A k \in DOMAIN trSpec :
            /\ trSpec[k].kind = "str" => env[k] = trSpec[k].s
            /\ trSpec[k].kind = "num" => env[k] = ToString(trSpec[k].n)
            /\ trSpec[k] = Num(12) => env[k] = "12"
            /\ trSpec[k] = List(<<"analysed_sst">>) => env[k] = "analysed_sst"
            /\ trSpec[k] = List(<<"a", "b", "c">>) => env[k] = "a,b,c"
        /\ "PYTHONPATH" \in DOMAIN env
        /\ env["PYTHONPATH"] = "/home/dev/github/data-processor/src"
        /\ env["CONDA_PATH"] = IF minicondaExists
                               THEN "/home/dev/miniconda3/bin/conda"
                               ELSE "/home/dev/anaconda3/bin/conda"
        /\ "OUT_PATH" \notin DOMAIN trSpec => env["OUT_PATH"] = "/tmp"

C21_Witness ==
    /\ trPc = "done"
    /\ DOMAIN trSpec = SpecKeys
    /\ trSpec["OUT_PATH"] = List(<<"a", "b", "c">>)
    /\ env["OUT_PATH"] = "a,b,c"
    /\ env["VARIABLES"] = "12"

\* ------------------------------------- more properties of the daemon pool
\* the positions of the last update_task call in a call sequence, 0 if none
LastPersist(s) ==
    IF \E i \in 1..Len(s) : s[i].op = "update_task"
    THEN CHOOSE i \in 1..Len(s) :
            s[i].op = "update_task" /\ \A j \in (i + 1)..Len(s) : s[j].op # "update_task"
    ELSE 0

\* C22: in every daemon the steps of an iteration come in the order claim, mark
\* running and persist, run TaskRunner, persist the outcome, notify: from the
\* launch on the first call of the iteration is the persist of the running
\* task and the store held it before the launch; while TaskRunner runs no other
\* call has been made; update_job is the last call and comes after the outcome
\* persist; and a daemon goes to a new claim only from its sleep, after an
\* iteration that claimed nothing or ended with update_job.
C22_IterationOrder ==
    /\ [](\A d \in Daemons :
            /\ pc[d] \in {"launch", "exec", "outcome", "persist_retry", "zip", "notify"} =>
                /\ log[d] # <<>>
                /\ log[d][1].op = "update_task" /\ log[d][1].state = "running"
                /\ log[d][1].id = task[d].id
            /\ pc[d] \in {"launch", "exec", "outcome"} => Len(log[d]) = 1
            /\ pc[d] = "notify" => LastPersist(log[d]) > 1
            /\ \A i \in 1..Len(log[d]) : log[d][i].op = "update_job" =>
                /\ i = Len(log[d])
                /\ LastPersist(log[d]) > 1 /\ LastPersist(log[d]) < i)
    /\ [][\A d \in Daemons :
            /\ (pc[d] = "mark_running" /\ pc'[d] = "launch") =>
                store'[task'[d].id].state = "running"
            /\ (pc[d] # "claim" /\ pc'[d] = "claim") =>
                /\ pc[d] = "sleep"
                /\ task[d] = NoTask \/ log[d][Len(log[d])].op = "update_job"
            /\ (pc[d] # "mark_running" /\ pc'[d] = "mark_running") => pc[d] = "claim"]_vars

C22_Witness ==
    \E d \in Daemons :
        /\ pc[d] = "claim" /\ task[d] # NoTask
        /\ store[task[d].id].state = "failed"

\* C23: on the retry path the queued state and the raised retry counter are
\* persisted before queue_task is called: a queue_task call of an iteration is
\* preceded by the update_task of the queued task, and a task that is in the
\* queue is never persisted as running.
C23_PersistBeforeRequeue ==
    /\ \A d \in Daemons : \A i \in 1..Len(log[d]) :
        log[d][i].op = "queue_task" =>
            \E j \in 1..(i - 1) :
                /\ log[d][j].op = "update_task"
                /\ log[d][j].state = "queued"
                /\ log[d][j].retry = log[d][i].retry
    /\ \A t \in queue : store[t].state # "running"

\* C24: an iteration whose claim returned no task goes from the claim straight
\* back to the sleep; it leaves the store, the queue and the subprocess state as
\* they were and has made no collaborator call; from that sleep the daemon can
\* only go to a new claim.
C24_EmptyClaimChangesNothing ==
    [][\A d \in Daemons :
        /\ (pc[d] = "claim" /\ pc'[d] = "sleep") =>
            /\ task'[d] = NoTask
            /\ store' = store
            /\ queue' = queue
            /\ log'[d] = <<>>
            /\ prvars' = prvars
        /\ (pc[d] = "sleep" /\ task[d] = NoTask /\ pc'[d] # "sleep") =>
            /\ pc'[d] = "claim"
            /\ store' = store /\ queue' = queue /\ log'[d] = <<>>]_vars

\* every task is finished and every daemon that ran one has since made a claim
\* that returned nothing
C24_Witness ==
    /\ \A t \in Tasks : store[t].state \in {"completed", "failed"}
    /\ \A d \in Daemons : pc[d] = "sleep" /\ task[d] = NoTask

\* -------------------------------------- more properties of ProcessRunner.run
\* C25: an error raised in timeout_if_not_complete (the subprocess was never
\* launched, or its process group is gone) ends in the monitor thread: the
\* monitor has ended whenever an error was caught; catching it changes nothing
\* of the runner or the daemons; a run whose exit code is recorded still joins
\* the monitor and returns; and the SIGKILL step always ends the monitor.
C25_MonitorErrorsSwallowed ==
    /\ [](caught => monPc = "done")
    /\ [][(~caught /\ caught') =>
            /\ runPc' = runPc
            /\ result' = result
            /\ dvars' = dvars]_vars
    /\ (caught /\ return_code # None) ~> (runPc = "returned")
    /\ (monPc = "kill") ~> (monPc = "done")

C25_Witness ==
    caught /\ runPc = "returned" /\ timed_out /\ signals = <<>>

\* C26: a task that failed with its retries exhausted has the failure reason
\* "process execution failed" recorded.
C26_FailureReason ==
    \A t \in Tasks : store[t].state = "failed" => error[t] = "process execution failed"

\* C27, first part: the script of a task is launched at most max_retries + 1
\* times, all daemons together.
C27_LaunchesBounded ==
    \A t \in Tasks : launches[t] <= max_retries + 1

\* C28: timed_out changes only from False to True, in a step of the expired
\* monitor that finds no exit code recorded, with no signal sent or attempted
\* before; every such look of the expired monitor sets it; a signal was sent or
\* an error caught only with the flag set; and run() returns the flag as it
\* then stands, with whatever exit code the subprocess produced.
C28_TimedOutIffExpiredUnrecorded ==
    /\ [][/\ timed_out' # timed_out =>
                /\ ~timed_out /\ timed_out'
                /\ expired /\ monPc = "check" /\ return_code = None
                /\ signals = <<>> /\ ~caught
          /\ (monPc = "check" /\ monPc' # "check") => (timed_out' <=> return_code = None)
          /\ (runPc # "returned" /\ runPc' = "returned") =>
                result' = <<return_code[1], timed_out>>]_vars
    /\ []((signals # <<>> \/ caught) => timed_out)
    /\ [](runPc = "returned" => result[2] = timed_out)

C28_Witness ==
    runPc = "returned" /\ expired /\ result = <<0, TRUE>>

\* ------------------------------------------- properties of the daemon path
\* C29: the ProcessRunner of a daemon-run task has no timeout: there is no
\* monitor, no signal and timed_out is False in every state; TaskRunner.run
\* reports success exactly when the script exited with code 0; and while a
\* launched script that never exits runs, run() stays in its read loop and the
\* daemon stays inside run_task.
C29_NoTimeoutOnDaemonPath ==
    /\ timeout <= 0
    /\ monPc = "none"
    /\ ~timed_out
    /\ signals = <<>>
    /\ \A d \in Daemons :
        (trPc = "done" /\ task[d] # NoTask) => (ok[d] <=> exitStatus = <<0>>)
    /\ (~exitsOnOwn /\ sub) =>
        /\ runPc \in {"readline", "poll"}
        /\ trPc = "run"
        /\ \A d \in Daemons : pc[d] \in {"launch", "sleep"}

C29_Witness ==
    ~exitsOnOwn /\ sub /\ runPc = "readline" /\ emitted # <<>> /\ FirstNL(unread) = 0

\* C30: zip_results is called at most once in an iteration; a finished
\* iteration that claimed a task has the call exactly if its attempt succeeded;
\* the call comes right after the persist of the completed task and before
\* update_job; an iteration that retried or failed the task, or claimed none,
\* has no such call.
C30_ZipIffSucceeded ==
    \A d \in Daemons :
        /\ CountOp(log[d], "zip_results") <= 1
        /\ IterDone(d) => (CountOp(log[d], "zip_results") = 1 <=> ok[d])
        /\ \A i \in 1..Len(log[d]) : log[d][i].op = "zip_results" =>
            /\ i > 1
            /\ log[d][i - 1].op = "update_task" /\ log[d][i - 1].state = "completed"
            /\ log[d][i].id = log[d][i - 1].id
            /\ \A j \in 1..i : log[d][j].op # "update_job"
            /\ \A j \in 1..Len(log[d]) :
                log[d][j].op # "queue_task" /\ log[d][j].state \notin {"queued", "failed"}
        /\ (IterDone(d) /\ ok[d]) =>
            /\ log[d][Len(log[d])].op = "update_job"
            /\ log[d][Len(log[d]) - 1].op = "zip_results"
        /\ task[d] = NoTask => CountOp(log[d], "zip_results") = 0

C30_Witness ==
    \E d \in Daemons :
        /\ pc[d] = "notify"
        /\ Len(log[d]) = 3
        /\ log[d][3] = Call("zip_results", task[d])

====
